---- MODULE Spec2Model ----
(***************************************************************************)
(* Model of one_billion_rows (src/src/main.rs): a pool of worker threads   *)
(* shares one BufReader and one leftover buffer, each worker aggregates    *)
(* the lines it is handed into a private CitiesMap, and main joins the     *)
(* workers and merges their maps.                                          *)
(*                                                                         *)
(* Bytes are their ASCII codes, byte strings are sequences of bytes, a     *)
(* u64 is a tuple of 8 bytes (least significant first).                    *)
(***************************************************************************)
EXTENDS Integers, Sequences, FiniteSets, TLC

\* ------------------------------------------------------------------ bounds
\* Largest number of worker threads (available_parallelism).
MaxThreads == 2
\* Capacity of the reader and of each worker's buffer (2048 * 2048 in the
\* program, scaled down).
ReaderCap == 8
\* Largest number of operations applied to a table in SpecTable.
MaxOps == 3

\* ------------------------------------------------------------------- bytes
NL == 10
SEMI == 59
MINUS == 45
DOT == 46
ZERO == 48

Min2(a, b) == IF a <= b THEN a ELSE b
Max2(a, b) == IF a >= b THEN a ELSE b

\* bytes[from..] of Rust, `from` counted from 0.
Drop(bytes, from) == SubSeq(bytes, from + 1, Len(bytes))
\* bytes[..to] of Rust.
Take(bytes, to) == SubSeq(bytes, 1, to)

\* ------------------------------------------------------------- mod fnv
\* 1099511628211 = 0x00000100000001B3
FNV_PRIME == <<179, 1, 0, 0, 0, 1, 0, 0>>
\* 14695981039346656037 = 0xCBF29CE484222325
FNV_OFFSET == <<37, 35, 34, 132, 228, 156, 242, 203>>

RECURSIVE Xor(_, _)
Xor(a, b) == IF a = 0 THEN b ELSE IF b = 0 THEN a ELSE ((a + b) % 2) + 2 * Xor(a \div 2, b \div 2)

\* Column i (from 1) of the schoolbook product h * p, before carries.
MulColumn(h, p, i) == LET Term[j \in 0..i] == IF j = 0 THEN 0 ELSE Term[j - 1] + h[j] * p[i - j + 1] IN Term[i]

\* h * p modulo 2^64.
WrappingMul(h, p) == LET Carry[i \in 0..8] == IF i = 0 THEN 0 ELSE (MulColumn(h, p, i) + Carry[i - 1]) \div 256 IN [i \in 1..8 |-> (MulColumn(h, p, i) + Carry[i - 1]) % 256]

fnv_hash_byte(byte, hash) == WrappingMul([hash EXCEPT ![1] = Xor(@, byte)], FNV_PRIME)

RECURSIVE HashBytes(_, _)
HashBytes(bytes, hash) == IF bytes = << >> THEN hash ELSE HashBytes(Tail(bytes), fnv_hash_byte(Head(bytes), hash))

\* ------------------------------------------------------------------ state
VARIABLES
    \* the build: TRUE when arithmetic overflow panics (debug profile), FALSE
    \* when it wraps (release profile)
    overflow_checks,
    \* the pure functions under test: argument, result, position
    arg, ret, stage,
    \* a CitiesMap under test, the map before its last operation, and the
    \* DataLine last added to it (ops counts the operations applied); a
    \* second CitiesMap, the argument of CitiesMap::merge
    tbl, prev, last, ops, other_tbl,
    \* the input file and the number of worker threads
    file, thread_count,
    \* the shared BufReader: bytes of the file already read; its mutex (0 when
    \* free, else the worker holding it)
    reader_pos, reader_lock,
    \* the shared leftover buffer and its mutex
    remaining, rest_lock,
    \* per worker: position in the closure, the slice &buffer[..read] of its
    \* read and the leaked slice `local` (each empty outside its scope), its
    \* CitiesMap
    pc, buffer, local, map,
    \* main: position, number of threads joined, the reduced map, what was
    \* printed
    main_pc, joined, result, stdout,
    \* history: the file range [from, to) of every slice handed to
    \* process_chunk, in hand-over order, whether a read failed, and the
    \* worker whose read left the reader at reader_pos (0 before any read)
    handed, io_failed, last_reader

Ok(v) == [tag |-> "Ok", val |-> v]
Err == [tag |-> "Err"]
Panic == [tag |-> "Panic"]

\* ------------------------------------------------------- mod temp_value
I32_MAX == 2147483647

\* self.0 + other.0 on i32, wrapping at 32 bits.
TempValue_add(a, b) == IF a > 0 /\ b > 0 /\ a > I32_MAX - b THEN (a - I32_MAX - 1) + (b - I32_MAX - 1) ELSE IF a < 0 /\ b < 0 /\ a + I32_MAX + 1 < -b THEN (a + I32_MAX + 1) + (b + I32_MAX + 1) ELSE a + b

\* self.0 + other.0 leaves the range of i32: a panic when overflow is checked.
AddOverflows(a, b) == (b > 0 /\ a > I32_MAX - b) \/ (b < 0 /\ a < (-I32_MAX - 1) - b)
TempValue_add_panics(a, b) == overflow_checks /\ AddOverflows(a, b)

\* (c - b'0') as i32, the subtraction on u8: wraps when overflow is unchecked.
to_digit(c) == IF c >= ZERO THEN c - ZERO ELSE c - ZERO + 256

\* The bytes bound to digit patterns by the match of TempValue::try_from,
\* most significant first; << >> when no arm matches.
MatchDigits(rest) == IF Len(rest) = 4 /\ rest[3] = DOT THEN <<rest[1], rest[2], rest[4]>> ELSE IF Len(rest) = 3 /\ rest[2] = DOT THEN <<rest[1], rest[3]>> ELSE << >>

Compose(ds) == IF Len(ds) = 3 THEN 100 * to_digit(ds[1]) + 10 * to_digit(ds[2]) + to_digit(ds[3]) ELSE 10 * to_digit(ds[1]) + to_digit(ds[2])

\* Mutant: the sign is read but the value is not negated.
TempValue_try_from_unsigned(value) ==
    IF Len(value) = 0 THEN Panic
    ELSE LET ds == MatchDigits(Drop(value, IF value[1] = MINUS THEN 1 ELSE 0))
         IN  IF ds = << >> THEN Err
             ELSE IF overflow_checks /\ \E i \in 1..Len(ds) : ds[i] < ZERO THEN Panic
             ELSE Ok(Compose(ds))

TempValue_try_from(value) ==
    IF Len(value) = 0 THEN Panic
    ELSE LET is_negative == value[1] = MINUS
             num_start == IF is_negative THEN 1 ELSE 0
             ds == MatchDigits(Drop(value, num_start))
         IN  IF ds = << >> THEN Err
             ELSE IF overflow_checks /\ \E i \in 1..Len(ds) : ds[i] < ZERO THEN Panic
             ELSE Ok(IF is_negative THEN -Compose(ds) ELSE Compose(ds))

RECURSIVE Decimal(_)
Decimal(n) == IF n < 10 THEN <<ZERO + n>> ELSE Append(Decimal(n \div 10), ZERO + (n % 10))

\* Mutant: integer part and fraction are printed apart, the sign with the
\* integer part.
TempValue_fmt_parts(val) == LET m == IF val < 0 THEN -val ELSE val IN (IF val <= -10 THEN <<MINUS>> ELSE << >>) \o Decimal(m \div 10) \o <<DOT, ZERO + (m % 10)>>

\* "{:.1}" of (val as f32 / 10.0): for |val| < 8000000 the nearest f32 to
\* val/10 rounds to one decimal as val/10 itself; 0 prints without a sign.
TempValue_fmt(val) == LET m == IF val < 0 THEN -val ELSE val IN (IF val < 0 THEN <<MINUS>> ELSE << >>) \o Decimal(m \div 10) \o <<DOT, ZERO + (m % 10)>>

\* Largest length of a name in SpecLine.
MaxNameLen == 2

\* Names over 'A', 'B'.
NameArgs == UNION {[1..n -> {65, 66}] : n \in 0..MaxNameLen}

\* The keys of those names, computed once, as pairs <<name, key>>: the fold
\* of fnv_hash_byte over the bytes of the name, then over its length.
KnownKeys == {<<name, fnv_hash_byte(Len(name) % 256, HashBytes(name, FNV_OFFSET))>> : name \in NameArgs}

\* ------------------------------------------------------------- DataLine
\* Which arm of the match on the trailing 6 bytes is taken: 1, 2, 3, or 0
\* for the catch-all.
MatchArm(b) == IF b[3] = SEMI THEN 1 ELSE IF b[2] = SEMI THEN 2 ELSE IF b[1] = SEMI THEN 3 ELSE 0

\* The bytes each arm hands to TempValue::try_from.
ArmValue(b, arm) == IF arm = 1 THEN Drop(b, 3) ELSE IF arm = 2 THEN Drop(b, 2) ELSE Drop(b, 5)

DataLine_try_from(bytes) ==
    IF Len(bytes) < 6 THEN Panic
    ELSE LET bytes_len == Len(bytes)
             b == SubSeq(bytes, bytes_len - 5, bytes_len)
             arm == MatchArm(b)
             idx == bytes_len - 3 - arm
             temp == TempValue_try_from(ArmValue(b, arm))
             key == IF Take(bytes, idx) \in NameArgs THEN (CHOOSE known \in KnownKeys : known[1] = Take(bytes, idx))[2] ELSE fnv_hash_byte(idx % 256, HashBytes(Take(bytes, idx), FNV_OFFSET))
         IN  IF arm = 0 THEN Err
             ELSE IF temp.tag # "Ok" THEN temp
             ELSE Ok([key |-> key, city |-> Take(bytes, idx), temperature |-> temp.val])

\* ------------------------------------------------------------- CityData
\* #[derive(Default)]: empty name, TempValue(0) three times, count 0.
CityData_default == [city |-> << >>, min |-> 0, max |-> 0, acc |-> 0, count |-> 0]

CityData_new(city) == [CityData_default EXCEPT !.city = city]

\* Mutant: the observation is not counted.
CityData_add_uncounted(self, value) == [self EXCEPT !.min = Min2(self.min, value), !.max = Max2(self.max, value), !.acc = TempValue_add(self.acc, value)]

CityData_add(self, value) == [self EXCEPT !.min = Min2(self.min, value), !.max = Max2(self.max, value), !.acc = TempValue_add(self.acc, value), !.count = self.count + 1]

\* Mutant: the other side's extremes replace this side's.
CityData_merge_overwrite(self, other) == [city |-> other.city, min |-> other.min, max |-> other.max, acc |-> TempValue_add(self.acc, other.acc), count |-> self.count + other.count]

CityData_merge(self, other) == [city |-> other.city, min |-> Min2(self.min, other.min), max |-> Max2(self.max, other.max), acc |-> TempValue_add(self.acc, other.acc), count |-> self.count + other.count]

\* ------------------------------------------------------------ CitiesMap
\* A map is a function from the keys it holds (u64 fingerprints) to CityData.
CitiesMap_new == [k \in {} |-> CityData_default]

\* entry(key).or_insert_with(f) / or_default(): the entry, created when absent.
EntryOr(data, key, fresh) == IF key \in DOMAIN data THEN data[key] ELSE fresh

Insert(data, key, value) == [k \in DOMAIN data \cup {key} |-> IF k = key THEN value ELSE data[k]]

CitiesMap_add(data, line) == Insert(data, line.key, CityData_add(EntryOr(data, line.key, CityData_new(line.city)), line.temperature))

\* Mutant: an entry of `other` replaces the entry of the same key.
CitiesMap_merge_replace(data, other) == [k \in DOMAIN data \cup DOMAIN other |-> IF k \in DOMAIN other THEN other[k] ELSE data[k]]

\* Each key of `other` is visited once, so the order of the visit is immaterial.
CitiesMap_merge(data, other) == [k \in DOMAIN data \cup DOMAIN other |-> IF k \in DOMAIN other THEN CityData_merge(EntryOr(data, k, CityData_default), other[k]) ELSE data[k]]

\* self.acc += value in CityData::add, self.acc += other.acc in
\* CityData::merge: the call panics when the addition does.
CitiesMap_add_panics(data, line) == TempValue_add_panics(EntryOr(data, line.key, CityData_new(line.city)).acc, line.temperature)
CitiesMap_merge_panics(data, other) == \E k \in DOMAIN other : TempValue_add_panics(EntryOr(data, k, CityData_default).acc, other[k].acc)

\* -------------------------------------------------------- process_chunk
\* Index of the first `byte` in bytes, 0 when there is none.
Position(bytes, byte) == IF \E i \in 1..Len(bytes) : bytes[i] = byte THEN CHOOSE i \in 1..Len(bytes) : bytes[i] = byte /\ \A j \in 1..(i - 1) : bytes[j] # byte ELSE 0

\* buffer.split(|&byte| byte == b'\n')
RECURSIVE SplitLines(_)
SplitLines(bytes) == LET i == Position(bytes, NL) IN IF i = 0 THEN <<bytes>> ELSE <<Take(bytes, i - 1)>> \o SplitLines(Drop(bytes, i))

\* The fold of process_chunk over the lines, from the left.
RECURSIVE FoldLines(_, _)
FoldLines(data, lines) ==
    IF lines = << >> THEN Ok(data)
    ELSE IF Head(lines) = << >> THEN FoldLines(data, Tail(lines))
    ELSE LET line == DataLine_try_from(Head(lines))
         IN  IF line.tag = "Panic" THEN Panic
             ELSE IF line.tag = "Err" THEN FoldLines(data, Tail(lines))
             ELSE IF CitiesMap_add_panics(data, line.val) THEN Panic
             ELSE FoldLines(CitiesMap_add(data, line.val), Tail(lines))

\* Ok(map), or Panic when parsing a line or adding its value panics.
process_chunk(bytes) == FoldLines(CitiesMap_new, SplitLines(bytes))

\* ------------------------------------------------------- pure-function runs
\* Bytes a value string is drawn from: '-', '.', '/', '0', '1', '9', 'x'.
ValueBytes == {MINUS, DOT, 47, ZERO, 49, 57, 120}
Digits == ZERO..(ZERO + 9)
\* Largest length of a value string outside the grammar.
MaxValLen == 5
\* optional '-', one or two digits, '.', one digit
Unsigned == {<<u, DOT, f>> : u \in Digits, f \in Digits} \cup {<<d, u, DOT, f>> : d \in Digits, u \in Digits, f \in Digits}
Grammar == Unsigned \cup {<<MINUS>> \o s : s \in Unsigned}

ValueArgs == Grammar \cup UNION {[1..n -> ValueBytes] : n \in 1..MaxValLen}

\* name;value for every value of the grammar, and lines that are no records:
\* "x", "A;x", "AAAA;x", "AAAAAAA", "AAA;x.y", "AAA;/.0".
LineArgs == {n \o <<SEMI>> \o v : n \in NameArgs, v \in Grammar} \cup {<<120>>, <<65, SEMI, 120>>, <<65, 65, 65, 65, SEMI, 120>>, <<65, 65, 65, 65, 65, 65, 65>>, <<65, 65, 65, SEMI, 120, DOT, 121>>, <<65, 65, 65, SEMI, 47, DOT, ZERO>>}

\* The records a table is fed in SpecTable: "AB;1.0", "AB;-2.5", "AB;0.0",
\* "BA;3.0", "BA;-0.1" as DataLine::try_from decodes them.
TableLines == {<<65, 66, SEMI, 49, DOT, ZERO>>, <<65, 66, SEMI, MINUS, 50, DOT, 53>>, <<65, 66, SEMI, ZERO, DOT, ZERO>>, <<66, 65, SEMI, 51, DOT, ZERO>>, <<66, 65, SEMI, MINUS, ZERO, DOT, 49>>}

pureVars == <<arg, ret, stage>>
tableVars == <<tbl, prev, last, ops, other_tbl>>
runVars == <<file, thread_count, reader_pos, reader_lock, remaining, rest_lock, pc, buffer, local, map, main_pc, joined, result, stdout, handed, io_failed, last_reader>>
vars == <<overflow_checks, pureVars, tableVars, runVars>>

RunIdle == /\ file = << >> /\ thread_count = 0 /\ reader_pos = 0 /\ reader_lock = 0
           /\ remaining = << >> /\ rest_lock = 0
           /\ pc = << >> /\ buffer = << >> /\ local = << >> /\ map = << >>
           /\ main_pc = "idle" /\ joined = 0 /\ result = CitiesMap_new /\ stdout = << >>
           /\ handed = << >> /\ io_failed = FALSE /\ last_reader = 0

PureIdle == arg = << >> /\ ret = Err /\ stage = "idle"
TableIdle == tbl = CitiesMap_new /\ prev = CitiesMap_new /\ last = Err /\ ops = 0 /\ other_tbl = CitiesMap_new

\* ---- TempValue::try_from and Display for TempValue on one argument
InitValue == /\ overflow_checks \in BOOLEAN
             /\ arg \in ValueArgs
             /\ ret = Err
             /\ stage = "arg"
             /\ TableIdle /\ RunIdle

ParseValue == /\ stage = "arg"
              /\ ret' = TempValue_try_from(arg)
              /\ stage' = "parsed"
              /\ UNCHANGED <<overflow_checks, arg, tableVars, runVars>>

FormatValue == /\ stage = "parsed"
               /\ ret.tag = "Ok"
               /\ ret' = Ok(TempValue_fmt(ret.val))
               /\ stage' = "formatted"
               /\ UNCHANGED <<overflow_checks, arg, tableVars, runVars>>

NextValue == ParseValue \/ FormatValue

SpecValue == InitValue /\ [][NextValue]_vars

\* ---- DataLine::try_from on one line
InitLine == /\ overflow_checks \in BOOLEAN
            /\ arg \in LineArgs
            /\ ret = Err
            /\ stage = "arg"
            /\ TableIdle /\ RunIdle

ParseLine == /\ stage = "arg"
             /\ ret' = DataLine_try_from(arg)
             /\ stage' = "parsed"
             /\ UNCHANGED <<overflow_checks, arg, tableVars, runVars>>

NextLine == ParseLine

SpecLine == InitLine /\ [][NextLine]_vars

\* ---- CitiesMap::add applied to a fresh map, record after record
InitTable == /\ overflow_checks \in BOOLEAN
             /\ PureIdle
             /\ TableIdle /\ RunIdle

TableAdd == /\ ops < MaxOps
            /\ \E bytes \in TableLines :
                  LET line == DataLine_try_from(bytes)
                  IN  /\ line.tag = "Ok"
                      /\ tbl' = CitiesMap_add(tbl, line.val)
                      /\ last' = line
            /\ prev' = tbl
            /\ ops' = ops + 1
            /\ UNCHANGED <<overflow_checks, pureVars, runVars, other_tbl>>

NextTable == TableAdd

SpecTable == InitTable /\ [][NextTable]_vars

\* ---- CitiesMap::add and CitiesMap::merge on two maps
\* Largest number of operations in SpecMerge.
MaxMergeOps == 4

\* The records of SpecMerge: "AB;99.9", "AB;-9.9", "BA;3.0", "AA;-0.1".
MergeLines == {<<65, 66, SEMI, 57, 57, DOT, 57>>, <<65, 66, SEMI, MINUS, 57, DOT, 57>>, <<66, 65, SEMI, 51, DOT, ZERO>>, <<65, 65, SEMI, MINUS, ZERO, DOT, 49>>}

\* The entry of "AB" after 2149633 records "AB;99.9": acc is 280 below the
\* largest i32.
HotEntry == [city |-> <<65, 66>>, min |-> 0, max |-> 999, acc |-> 999 * 2149633, count |-> 2149633]

\* The map after those records.
HotTable == Insert(CitiesMap_new, DataLine_try_from(<<65, 66, SEMI, 57, 57, DOT, 57>>).val.key, HotEntry)

\* The records are decoded once, by DataLine::try_from, and kept in arg.
InitMerge == /\ overflow_checks \in BOOLEAN
             /\ arg = {DataLine_try_from(bytes).val : bytes \in MergeLines}
             /\ ret = Err /\ stage = "idle"
             /\ RunIdle
             /\ tbl \in {CitiesMap_new, HotTable}
             /\ prev = tbl /\ last = Err /\ ops = 0 /\ other_tbl = CitiesMap_new

\* self.add(line) on the first map; a panic ends the run.
MergeAdd == /\ ops < MaxMergeOps /\ last.tag # "Panic"
            /\ \E line \in arg :
                  IF CitiesMap_add_panics(tbl, line)
                  THEN last' = Panic /\ UNCHANGED <<tbl, prev>>
                  ELSE tbl' = CitiesMap_add(tbl, line) /\ prev' = tbl /\ last' = [tag |-> "Add", line |-> line]
            /\ ops' = ops + 1
            /\ UNCHANGED <<overflow_checks, pureVars, runVars, other_tbl>>

\* other.add(line) on the second map
MergeOtherAdd == /\ ops < MaxMergeOps /\ last.tag # "Panic"
                 /\ \E line \in arg :
                       IF CitiesMap_add_panics(other_tbl, line)
                       THEN last' = Panic /\ UNCHANGED other_tbl
                       ELSE other_tbl' = CitiesMap_add(other_tbl, line) /\ last' = [tag |-> "OtherAdd", line |-> line]
                 /\ ops' = ops + 1
                 /\ UNCHANGED <<overflow_checks, pureVars, runVars, tbl, prev>>

\* self.merge(&other)
MergeTables == /\ ops < MaxMergeOps /\ last.tag # "Panic"
               /\ IF CitiesMap_merge_panics(tbl, other_tbl)
                  THEN last' = Panic /\ UNCHANGED <<tbl, prev>>
                  ELSE tbl' = CitiesMap_merge(tbl, other_tbl) /\ prev' = tbl /\ last' = [tag |-> "Merge"]
               /\ ops' = ops + 1
               /\ UNCHANGED <<overflow_checks, pureVars, runVars, other_tbl>>

NextMerge == MergeAdd \/ MergeOtherAdd \/ MergeTables

SpecMerge == InitMerge /\ [][NextMerge]_vars

\* ---- CityData::merge on three aggregates of one city
\* The call self.merge(&other): a panic when self.acc += other.acc panics.
CityData_merge_call(self, other) == IF TempValue_add_panics(self.acc, other.acc) THEN Panic ELSE Ok(CityData_merge(self, other))

\* The aggregate of a city after CityData::add of each value in turn.
RECURSIVE Observed(_, _)
Observed(entry, values) == IF values = << >> THEN entry ELSE Observed(CityData_add(entry, Head(values)), Tail(values))

\* Aggregates of "AB": after 2149633 times 99.9, after 99.9, after eight times
\* -9.9, after 1.0 and -2.5, after 0.0.
CityAggs == {HotEntry,
             Observed(CityData_new(<<65, 66>>), <<999>>),
             Observed(CityData_new(<<65, 66>>), <<-99, -99, -99, -99, -99, -99, -99, -99>>),
             Observed(CityData_new(<<65, 66>>), <<10, -25>>),
             Observed(CityData_new(<<65, 66>>), <<0>>)}

InitCityMerge == /\ overflow_checks \in BOOLEAN
                 /\ arg \in CityAggs \X CityAggs \X CityAggs
                 /\ ret = Err
                 /\ stage = "arg"
                 /\ TableIdle /\ RunIdle

\* a.merge(&b), b.merge(&a), (a.merge(&b)).merge(&c) and a.merge(&(b.merge(&c)))
\* on copies of a, b, c.
MergeBothWays == /\ stage = "arg"
                 /\ LET a == arg[1]
                        b == arg[2]
                        c == arg[3]
                        ab == CityData_merge_call(a, b)
                        bc == CityData_merge_call(b, c)
                    IN  ret' = Ok([ab |-> ab,
                                   ba |-> CityData_merge_call(b, a),
                                   ab_c |-> IF ab.tag = "Panic" THEN Panic ELSE CityData_merge_call(ab.val, c),
                                   a_bc |-> IF bc.tag = "Panic" THEN Panic ELSE CityData_merge_call(a, bc.val)])
                 /\ stage' = "merged"
                 /\ UNCHANGED <<overflow_checks, arg, tableVars, runVars>>

NextCityMerge == MergeBothWays

SpecCityMerge == InitCityMerge /\ [][NextCityMerge]_vars
\* ---------------------------------------------------------------- main
\* The input files:
\*   "", "AB;1.0\n", "AB;1.0", "A;x\n", "A;1.0\n", "A;-12.3\n", "AB;/.0\n",
\*   "AB;1.0\nAB;3.0\n", "B;-2.5\nAB;1.0", "A;x\nAB;1.0\n"
Files == {<< >>,
          <<65, 66, SEMI, 49, DOT, ZERO, NL>>,
          <<65, 66, SEMI, 49, DOT, ZERO>>,
          <<65, SEMI, 120, NL>>,
          <<65, SEMI, 49, DOT, ZERO, NL>>,
          <<65, SEMI, MINUS, 49, 50, DOT, 51, NL>>,
          <<65, 66, SEMI, 47, DOT, ZERO, NL>>,
          <<65, 66, SEMI, 49, DOT, ZERO, NL, 65, 66, SEMI, 51, DOT, ZERO, NL>>,
          <<66, SEMI, MINUS, 50, DOT, 53, NL, 65, 66, SEMI, 49, DOT, ZERO>>,
          <<65, SEMI, 120, NL, 65, 66, SEMI, 49, DOT, ZERO, NL>>}

Workers == 1..thread_count

CURSOR_LEFT == 8

\* a < b for &str: byte-wise lexicographic.
RECURSIVE StrLess(_, _)
StrLess(a, b) == IF b = << >> THEN FALSE ELSE IF a = << >> THEN TRUE ELSE IF Head(a) # Head(b) THEN Head(a) < Head(b) ELSE StrLess(Tail(a), Tail(b))

\* map.iter().collect() then sort_by_key(city): the entries by ascending
\* city (entries of equal city would keep the map's iteration order).
RECURSIVE SortByCity(_)
SortByCity(entries) == IF entries = {} THEN << >> ELSE LET first == CHOOSE e \in entries : \A o \in entries : ~StrLess(o.city, e.city) IN <<first>> \o SortByCity(entries \ {first})

Results(data) == SortByCity({data[k] : k \in DOMAIN data})

\* What print_results writes: "{", then each entry (the text of Display for
\* CityData, kept as the entry itself) followed by ", ", then two CURSOR_LEFT,
\* "}" and the line terminator of println!.
RECURSIVE PrintEntries(_)
PrintEntries(results) == IF results = << >> THEN << >> ELSE <<[entry |-> Head(results)], ", ">> \o PrintEntries(Tail(results))

print_results(results) == <<"{">> \o PrintEntries(results) \o <<CURSOR_LEFT, CURSOR_LEFT, "}", NL>>

\* rposition(|&byte| byte == b'\n').unwrap_or(len), counted from 0.
LastNewLine(bytes) == IF \E i \in 1..Len(bytes) : bytes[i] = NL THEN (CHOOSE i \in 1..Len(bytes) : bytes[i] = NL /\ \A j \in (i + 1)..Len(bytes) : bytes[j] # NL) - 1 ELSE Len(bytes)

Init == /\ overflow_checks \in BOOLEAN
        /\ PureIdle /\ TableIdle
        /\ file \in Files
        /\ thread_count \in 1..MaxThreads
        /\ reader_pos = 0 /\ reader_lock = 0
        /\ remaining = << >> /\ rest_lock = 0
        /\ pc = [w \in Workers |-> "lock_rest"]
        /\ buffer = [w \in Workers |-> << >>]
        /\ local = [w \in Workers |-> << >>]
        /\ map = [w \in Workers |-> CitiesMap_new]
        /\ main_pc = "join" /\ joined = 0 /\ result = CitiesMap_new /\ stdout = << >>
        /\ handed = << >> /\ io_failed = FALSE /\ last_reader = 0

\* Mutant: the lock of remaining is taken although another worker holds it.
LockRemaining_unguarded(w) == /\ pc[w] = "lock_rest"
                              /\ rest_lock' = w
                              /\ pc' = [pc EXCEPT ![w] = "lock_reader"]
                              /\ UNCHANGED <<overflow_checks, pureVars, tableVars, file, thread_count, reader_pos, reader_lock, remaining, buffer, local, map, main_pc, joined, result, stdout, handed, io_failed, last_reader>>

\* my_rest.lock().unwrap()
LockRemaining(w) == /\ pc[w] = "lock_rest"
                    /\ rest_lock = 0
                    /\ rest_lock' = w
                    /\ pc' = [pc EXCEPT ![w] = "lock_reader"]
                    /\ UNCHANGED <<overflow_checks, pureVars, tableVars, file, thread_count, reader_pos, reader_lock, remaining, buffer, local, map, main_pc, joined, result, stdout, handed, io_failed, last_reader>>

\* my_reader.lock().unwrap()
LockReader(w) == /\ pc[w] = "lock_reader"
                 /\ reader_lock = 0
                 /\ reader_lock' = w
                 /\ pc' = [pc EXCEPT ![w] = "read"]
                 /\ UNCHANGED <<overflow_checks, pureVars, tableVars, file, thread_count, reader_pos, rest_lock, remaining, buffer, local, map, main_pc, joined, result, stdout, handed, io_failed, last_reader>>

\* break out of the loop: both guards are dropped and the closure returns map.
Break(w) == /\ reader_lock' = 0
            /\ rest_lock' = 0
            /\ pc' = [pc EXCEPT ![w] = "returned"]
            /\ UNCHANGED <<overflow_checks, pureVars, tableVars, file, thread_count, reader_pos, remaining, buffer, local, map, main_pc, joined, result, stdout, handed, last_reader>>

\* reader.read(&mut buffer) is an Err
ReadErr(w) == /\ pc[w] = "read"
              /\ io_failed' = TRUE
              /\ Break(w)

\* reader.read(&mut buffer) is Ok(0): the end of the file
ReadEof(w) == /\ pc[w] = "read"
              /\ reader_pos = Len(file)
              /\ UNCHANGED io_failed
              /\ Break(w)

\* Mutant: the read does not move the reader's position.
ReadSome_rewound(w) == /\ pc[w] = "read"
                       /\ \E n \in 1..Min2(ReaderCap, Len(file) - reader_pos) :
                             buffer' = [buffer EXCEPT ![w] = SubSeq(file, reader_pos + 1, reader_pos + n)]
                       /\ last_reader' = w
                       /\ reader_lock' = 0
                       /\ pc' = [pc EXCEPT ![w] = "split"]
                       /\ UNCHANGED <<overflow_checks, pureVars, tableVars, file, thread_count, reader_pos, rest_lock, remaining, local, map, main_pc, joined, result, stdout, handed, io_failed>>

\* reader.read(&mut buffer) is Ok(n), n > 0; the reader's guard is dropped.
ReadSome(w) == /\ pc[w] = "read"
               /\ \E n \in 1..Min2(ReaderCap, Len(file) - reader_pos) :
                     /\ buffer' = [buffer EXCEPT ![w] = SubSeq(file, reader_pos + 1, reader_pos + n)]
                     /\ reader_pos' = reader_pos + n
               /\ last_reader' = w
               /\ reader_lock' = 0
               /\ pc' = [pc EXCEPT ![w] = "split"]
               /\ UNCHANGED <<overflow_checks, pureVars, tableVars, file, thread_count, rest_lock, remaining, local, map, main_pc, joined, result, stdout, handed, io_failed>>

\* Mutant: the guard of remaining is kept while the slice is processed.
SplitAtLastNewLine_locked(w) ==
    /\ pc[w] = "split"
    /\ LET last_new_line == LastNewLine(buffer[w])
           chunk == Take(buffer[w], last_new_line)
           rest == Drop(buffer[w], last_new_line)
           from == reader_pos - Len(buffer[w]) - Len(remaining)
       IN  /\ local' = [local EXCEPT ![w] = remaining \o chunk]
           /\ remaining' = rest
           /\ handed' = Append(handed, [from |-> from, to |-> from + Len(remaining) + Len(chunk)])
    /\ buffer' = [buffer EXCEPT ![w] = << >>]
    /\ pc' = [pc EXCEPT ![w] = "process"]
    /\ UNCHANGED <<overflow_checks, pureVars, tableVars, file, thread_count, reader_pos, reader_lock, rest_lock, map, main_pc, joined, result, stdout, io_failed, last_reader>>

\* last_new_line, split_at, to_process, remaining.clear/extend, leak; the
\* guard of remaining is dropped.
SplitAtLastNewLine(w) ==
    /\ pc[w] = "split"
    /\ LET last_new_line == LastNewLine(buffer[w])
           chunk == Take(buffer[w], last_new_line)
           rest == Drop(buffer[w], last_new_line)
           from == reader_pos - Len(buffer[w]) - Len(remaining)
       IN  /\ local' = [local EXCEPT ![w] = remaining \o chunk]
           /\ remaining' = rest
           /\ handed' = Append(handed, [from |-> from, to |-> from + Len(remaining) + Len(chunk)])
    /\ buffer' = [buffer EXCEPT ![w] = << >>]
    /\ rest_lock' = 0
    /\ pc' = [pc EXCEPT ![w] = "process"]
    /\ UNCHANGED <<overflow_checks, pureVars, tableVars, file, thread_count, reader_pos, reader_lock, map, main_pc, joined, result, stdout, io_failed, last_reader>>

\* map.merge(&process_chunk(local)); a panic of process_chunk ends the thread.
Process(w) ==
    /\ pc[w] = "process"
    /\ LET chunk_map == process_chunk(local[w])
       IN  IF chunk_map.tag = "Panic" \/ CitiesMap_merge_panics(map[w], chunk_map.val)
           THEN /\ pc' = [pc EXCEPT ![w] = "panicked"]
                /\ UNCHANGED map
           ELSE /\ pc' = [pc EXCEPT ![w] = "lock_rest"]
                /\ map' = [map EXCEPT ![w] = CitiesMap_merge(map[w], chunk_map.val)]
    /\ local' = [local EXCEPT ![w] = << >>]
    /\ UNCHANGED <<overflow_checks, pureVars, tableVars, file, thread_count, reader_pos, reader_lock, remaining, rest_lock, buffer, main_pc, joined, result, stdout, handed, io_failed, last_reader>>

\* thread.join().unwrap() on the next handle, folded by reduce; after the
\* last one the results are sorted and printed. main panics when the thread
\* panicked or the merge does.
JoinNext ==
    /\ main_pc = "join"
    /\ LET w == joined + 1
       IN  /\ pc[w] \in {"returned", "panicked"}
           /\ IF pc[w] = "panicked" \/ (joined # 0 /\ CitiesMap_merge_panics(result, map[w]))
              THEN /\ main_pc' = "panicked"
                   /\ UNCHANGED <<joined, result, stdout>>
              ELSE LET merged == IF joined = 0 THEN map[w] ELSE CitiesMap_merge(result, map[w])
                   IN  /\ result' = merged
                       /\ joined' = w
                       /\ IF w = thread_count
                          THEN /\ main_pc' = "done"
                               /\ stdout' = print_results(Results(merged))
                          ELSE UNCHANGED <<main_pc, stdout>>
    /\ UNCHANGED <<overflow_checks, pureVars, tableVars, file, thread_count, reader_pos, reader_lock, remaining, rest_lock, pc, buffer, local, map, handed, io_failed, last_reader>>

Next == \/ JoinNext
        \/ \E w \in Workers : LockRemaining(w)
        \/ \E w \in Workers : LockReader(w)
        \/ \E w \in Workers : ReadErr(w)
        \/ \E w \in Workers : ReadEof(w)
        \/ \E w \in Workers : ReadSome(w)
        \/ \E w \in Workers : SplitAtLastNewLine(w)
        \/ \E w \in Workers : Process(w)

Spec == Init /\ [][Next]_vars
\* ------------------------------------------------- what the claims refer to
\* The scaled integer a value string of the grammar denotes.
RefValue(s) == LET t == IF s[1] = MINUS THEN Tail(s) ELSE s
                   m == IF Len(t) = 4 THEN 100 * (t[1] - ZERO) + 10 * (t[2] - ZERO) + (t[4] - ZERO) ELSE 10 * (t[1] - ZERO) + (t[3] - ZERO)
               IN  IF s[1] = MINUS THEN -m ELSE m

\* A line `name;value`: the name before its first ';', the value after it.
RecName(line) == Take(line, Position(line, SEMI) - 1)
RecValue(line) == Drop(line, Position(line, SEMI))
IsRecord(line) == Position(line, SEMI) > 0 /\ RecValue(line) \in Grammar

NonEmpty(lines) == SelectSeq(lines, LAMBDA l : l # << >>)
FileRecords(f) == NonEmpty(SplitLines(f))

RECURSIVE Flatten(_)
Flatten(seqs) == IF seqs = << >> THEN << >> ELSE Head(seqs) \o Flatten(Tail(seqs))

RECURSIVE JoinLines(_)
JoinLines(lines) == IF lines = << >> THEN << >> ELSE Head(lines) \o <<NL>> \o JoinLines(Tail(lines))

RECURSIVE SumOf(_)
SumOf(values) == IF values = << >> THEN 0 ELSE Head(values) + SumOf(Tail(values))

\* Every line is a record and is terminated.
WellFormedFile(f) == (f = << >> \/ f[Len(f)] = NL) /\ \A i \in 1..Len(FileRecords(f)) : IsRecord(FileRecords(f)[i])

\* The statistics of the records of a well-formed file, one per name.
ExpectedStats(f) ==
    LET recs == FileRecords(f)
        names == {RecName(recs[i]) : i \in 1..Len(recs)}
        of(n) == SelectSeq(recs, LAMBDA l : RecName(l) = n)
        vals(n) == [i \in 1..Len(of(n)) |-> RefValue(RecValue(of(n)[i]))]
        set(n) == {vals(n)[i] : i \in 1..Len(vals(n))}
    IN  {[city |-> n,
          min |-> CHOOSE v \in set(n) : \A o \in set(n) : v <= o,
          max |-> CHOOSE v \in set(n) : \A o \in set(n) : v >= o,
          sum |-> SumOf(vals(n)),
          count |-> Len(vals(n))] : n \in names}

TableStats(data) == {[city |-> data[k].city, min |-> data[k].min, max |-> data[k].max, sum |-> data[k].acc, count |-> data[k].count] : k \in DOMAIN data}

KeyStats(data) == [k \in DOMAIN data |-> [min |-> data[k].min, max |-> data[k].max, sum |-> data[k].acc, count |-> data[k].count]]

FileSlice(h) == SubSeq(file, h.from + 1, h.to)

\* Offset p of the file does not lie strictly inside a line.
AtLineBoundary(p) == p = 0 \/ p = Len(file) \/ file[p] = NL \/ file[p + 1] = NL

AllReturned == \A w \in Workers : pc[w] = "returned"
AllTerminated == \A w \in Workers : pc[w] \in {"returned", "panicked"}

\* One worker handed the same slices, in file order: map.merge(&process_chunk(local))
\* for each, until one panics.
RECURSIVE SingleWorker(_, _)
SingleWorker(data, slices) ==
    IF slices = << >> THEN Ok(data)
    ELSE LET chunk_map == process_chunk(FileSlice(Head(slices)))
         IN  IF chunk_map.tag = "Panic" \/ CitiesMap_merge_panics(data, chunk_map.val) THEN Panic
             ELSE SingleWorker(CitiesMap_merge(data, chunk_map.val), Tail(slices))

\* ----------------------------------------------------------------- claims
\* C1 (as claimed): for a file of well-formed, terminated lines the final table
\* holds, for each name, the smallest value, the largest value, the sum and the
\* number of its records.
C1_FinalTable == (main_pc = "done" /\ ~io_failed /\ WellFormedFile(file)) => TableStats(result) = ExpectedStats(file)

\* C2 (as claimed): whatever the sizes of the reads, every slice handed to
\* process_chunk begins and ends at a line boundary, so no line is parsed in two
\* pieces.
C2_NoRecordSplit == \A i \in 1..Len(handed) : AtLineBoundary(handed[i].from) /\ AtLineBoundary(handed[i].to)

\* C3 (as claimed): when all workers have returned, the slices handed to
\* process_chunk hold, in file order, every record of the file exactly once,
\* a final line without terminator included.
C3_EveryRecordOnce == (AllReturned /\ ~io_failed /\ C2_NoRecordSplit) => Flatten([i \in 1..Len(handed) |-> NonEmpty(SplitLines(FileSlice(handed[i])))]) = FileRecords(file)

C5_MalformedLineDiscarded ==
    LET recs == FileRecords(file)
        kept == process_chunk(JoinLines(SelectSeq(recs, IsRecord)))
    IN  (AllTerminated /\ ~io_failed /\ C2_NoRecordSplit /\ file # << >> /\ file[Len(file)] = NL /\ kept.tag = "Ok" /\ \E i \in 1..Len(recs) : ~IsRecord(recs[i]))
        => (AllReturned /\ (main_pc = "done" => KeyStats(result) = KeyStats(kept.val)))

\* C6 (as claimed): adding a record to a table creates, for a new fingerprint,
\* an entry with min = max = sum = value and count = 1, and updates an existing
\* entry to min(min, value), max(max, value), sum + value, count + 1.
C6_Observe ==
    last.tag = "Ok" =>
        LET k == last.val.key
            v == last.val.temperature
        IN  IF k \in DOMAIN prev
            THEN tbl[k].min = Min2(prev[k].min, v) /\ tbl[k].max = Max2(prev[k].max, v) /\ tbl[k].acc = prev[k].acc + v /\ tbl[k].count = prev[k].count + 1
            ELSE tbl[k].min = v /\ tbl[k].max = v /\ tbl[k].acc = v /\ tbl[k].count = 1

\* C7 (as claimed): for a line name;value of at least 6 bytes with a value of
\* the grammar, DataLine::try_from hands the value parser exactly the bytes
\* after the delimiter and yields the name before it and the value written.
C7_DelimiterAndValue ==
    (stage = "parsed" /\ IsRecord(arg) /\ Len(arg) >= 6) =>
        LET b == SubSeq(arg, Len(arg) - 5, Len(arg))
        IN  /\ MatchArm(b) # 0
            /\ ArmValue(b, MatchArm(b)) = RecValue(arg)
            /\ ret.tag = "Ok"
            /\ ret.val.city = RecName(arg)
            /\ ret.val.temperature = RefValue(RecValue(arg))

\* C8: TempValue::try_from of a string of the grammar is Ok of
\* sign * (100*d2 + 10*d1 + d0), or sign * (10*d1 + d0) with one integer digit.
C8_ScaledInteger == (stage = "parsed" /\ arg \in Grammar) => ret = Ok(RefValue(arg))

\* C8 witness: "-0.1" was parsed to -1.
C8_Witness == stage = "parsed" /\ arg = <<MINUS, ZERO, DOT, 49>> /\ ret = Ok(-1)

\* C9 (as claimed): TempValue::try_from of a non-empty string outside the
\* grammar is an error.
C9_RejectsOtherShapes == (stage = "parsed" /\ arg \notin Grammar) => ret = Err

\* No leading zero before a second integer digit, and not "-0.0".
Canonical(s) == LET t == IF s[1] = MINUS THEN Tail(s) ELSE s IN ~(Len(t) = 4 /\ t[1] = ZERO) /\ s # <<MINUS, ZERO, DOT, ZERO>>

\* C10 (as claimed): formatting the TempValue parsed from a string of the
\* grammar gives the string back.
C10_RoundTrip == (stage = "formatted" /\ arg \in Grammar) => ret = Ok(arg)

\* C10 (amended): formatting the TempValue parsed from a string of the grammar
\* that has no leading zero in a two-digit integer part and is not "-0.0"
\* gives the string back.
C10_RoundTripCanonical == (stage = "formatted" /\ arg \in Grammar /\ Canonical(arg)) => ret = Ok(arg)

\* C10 witness: "-12.3" was parsed and formatted back to "-12.3".
C10_Witness == stage = "formatted" /\ arg = <<MINUS, 49, 50, DOT, 51>> /\ ret = Ok(arg)

\* C12 (as claimed): when a read of the input file has failed in some worker,
\* the run does not complete and nothing is printed.
C12_ReadFailureIsFatal == io_failed => (main_pc # "done" /\ stdout = << >>)

\* The entries in the given order with ", " between consecutive ones.
RECURSIVE SeparatedEntries(_)
SeparatedEntries(results) == IF results = << >> THEN << >> ELSE IF Len(results) = 1 THEN <<[entry |-> Head(results)]>> ELSE <<[entry |-> Head(results)], ", ">> \o SeparatedEntries(Tail(results))

\* C17 (as claimed): the characters written for the final table are exactly
\* "{", the entries in sorted order separated by ", ", and "}" (then the end of
\* the line): nothing stands between the last entry and "}", and an empty
\* table is written as "{}".
C17_ExactOutput == main_pc = "done" => stdout = <<"{">> \o SeparatedEntries(Results(result)) \o <<"}", NL>>

EntryValid(e) == e.count >= 1 /\ e.min <= e.max
TableValid(data) == \A k \in DOMAIN data : EntryValid(data[k])

\* C13: in every reachable state every entry of every table has count >= 1
\* and min <= max: the table of each worker, the table process_chunk builds
\* from the slice a worker is about to process, and the reduced table of main.
C13_EntriesValid ==
    /\ TableValid(result)
    /\ \A w \in Workers :
          /\ TableValid(map[w])
          /\ pc[w] = "process" => LET chunk_map == process_chunk(local[w]) IN chunk_map.tag = "Ok" => TableValid(chunk_map.val)

\* C13 witness: two workers each built a non-empty table with a negative and a
\* positive value and main reduced and printed them.
C13_Witness == main_pc = "done" /\ thread_count = 2 /\ (\A w \in Workers : DOMAIN map[w] # {}) /\ \E k \in DOMAIN result : result[k].min < 0 /\ result[k].count = 1

\* A worker that is parsing its slice and updating its table holds no lock.
NoLockWhileProcessing == \A w \in Workers : pc[w] = "process" => (rest_lock # w /\ reader_lock # w)

\* The table of worker w is written only by a step of w's own
\* map.merge(&process_chunk(local)), and no other thread moves in that step.
OwnTableOnly == \A w \in Workers : map'[w] # map[w] => (pc[w] = "process" /\ pc'[w] = "lock_rest" /\ map'[w] = CitiesMap_merge(map[w], process_chunk(local[w]).val) /\ (\A o \in Workers \ {w} : pc'[o] = pc[o] /\ map'[o] = map[o]) /\ result' = result)

\* main's table is written only by the join of the next worker, which has
\* returned: its table is read after its thread has ended.
ResultAfterJoin == result' # result => (main_pc = "join" /\ joined' = joined + 1 /\ pc[joined'] = "returned" /\ map' = map /\ pc' = pc)

\* C14: during the scan no aggregation state is shared: each table is read and
\* written by one thread until the join, and a worker that is processing its
\* slice holds neither the reader lock nor the leftover-buffer lock.
C14_NoSharedAggregation == [](NoLockWhileProcessing) /\ [][OwnTableOnly /\ ResultAfterJoin]_vars

\* C14 witness: worker 1 is processing a non-empty slice while worker 2 holds
\* both locks and is about to read, after worker 2 already filled its table.
C14_Witness == thread_count = 2 /\ pc[1] = "process" /\ local[1] # << >> /\ pc[2] = "read" /\ rest_lock = 2 /\ reader_lock = 2 /\ DOMAIN map[2] # {}

Pending == IF \E w \in Workers : pc[w] = "split" THEN Len(buffer[CHOOSE w \in Workers : pc[w] = "split"]) ELSE 0

\* The end of the last slice handed over.
Cut == IF handed = << >> THEN 0 ELSE handed[Len(handed)].to

\* The leftover is what the reads so far brought after the last slice handed
\* over: every byte read is in one slice, in the leftover or in the buffer
\* that is about to be split.
LeftoverIsTail == /\ Cut + Len(remaining) + Pending = reader_pos
                  /\ remaining = SubSeq(file, Cut + 1, Cut + Len(remaining))

\* The hand-over of worker w: its slice is the leftover of the previous read
\* followed by the bytes of its own read up to their last line terminator, and
\* the new leftover is the rest of its own read.
HandOver == \A w \in Workers : (pc[w] = "split" /\ pc'[w] = "process") =>
               /\ last_reader = w
               /\ Len(handed') = Len(handed) + 1
               /\ handed'[Len(handed')].from = Cut
               /\ handed'[Len(handed')].to = reader_pos - Len(remaining')
               /\ local'[w] = remaining \o SubSeq(buffer[w], 1, Len(buffer[w]) - Len(remaining'))
               /\ local'[w] = SubSeq(file, Cut + 1, reader_pos - Len(remaining'))
               /\ remaining' = SubSeq(file, reader_pos - Len(remaining') + 1, reader_pos)

\* C19: the read and the replacement of the leftover are one step for the
\* other workers: the leftover stored after a read is prepended to the bytes of
\* the next read and to no other, whichever workers make the two reads.
C19_LeftoverToNextRead == [](LeftoverIsTail) /\ [][HandOver]_vars

\* C19 witness: worker 1 was handed the leftover "\n" that the read of worker 2
\* stored, in front of the line of its own read.
C19_Witness == thread_count = 2 /\ pc[1] = "process" /\ Len(handed) = 2 /\ DOMAIN map[2] # {} /\ local[1] = <<NL, 65, 66, SEMI, 51, DOT, ZERO>> /\ remaining = <<NL>>

\* Worker w can take a step: it is not waiting for a lock another thread holds
\* and has not ended.
CanStep(w) == \/ pc[w] \in {"read", "split", "process"}
              \/ pc[w] = "lock_rest" /\ rest_lock = 0
              \/ pc[w] = "lock_reader" /\ reader_lock = 0

\* main can take a step: the thread it joins next has ended.
MainCanStep == main_pc = "join" /\ pc[joined + 1] \in {"returned", "panicked"}

\* C20 (as claimed): every worker leaves its loop by returning its table and
\* main completes the joins and the reduction: no thread ends in a panic, and a
\* state in which no thread can take a step is one where all workers have
\* returned and main is done, so none waits for a lock for ever.
C20_Terminates ==
    /\ \A w \in Workers : pc[w] # "panicked"
    /\ main_pc # "panicked"
    /\ (~MainCanStep /\ \A w \in Workers : ~CanStep(w)) => (AllReturned /\ main_pc = "done")

\* No thread waits for ever on a lock: whenever some thread has not ended,
\* some thread can take a step.
C20_NoLockDeadlock == (main_pc = "join" \/ \E w \in Workers : pc[w] \notin {"returned", "panicked"}) => (MainCanStep \/ \E w \in Workers : CanStep(w))

\* now = before + value as integers, with no intermediate result outside i32.
ExactSum(before, value, now) == IF value >= 0 THEN now >= before /\ now - before = value ELSE now < before /\ before - now = -value

\* C16 (as claimed): whatever the number of observations and merges, acc is
\* the exact integer sum: every add leaves acc = acc before + value, every
\* merge leaves acc = acc before + the other entry's acc, and no addition
\* overflows (none panics, none wraps).
C16_ExactSum ==
    /\ last.tag # "Panic"
    /\ last.tag = "Add" => ExactSum(EntryOr(prev, last.line.key, CityData_default).acc, last.line.temperature, tbl[last.line.key].acc)
    /\ last.tag = "Merge" => \A k \in DOMAIN other_tbl : ExactSum(EntryOr(prev, k, CityData_default).acc, other_tbl[k].acc, tbl[k].acc)

\* C18: after CitiesMap::merge(self, other) the keys are those of both maps;
\* a key of other that self lacked holds other's entry, a key of both holds
\* CityData::merge of the two entries, and the other entries of self are
\* unchanged.
C18_MergePostcondition ==
    last.tag = "Merge" =>
        /\ DOMAIN tbl = DOMAIN prev \cup DOMAIN other_tbl
        /\ \A k \in DOMAIN tbl : tbl[k] = (IF k \notin DOMAIN prev THEN other_tbl[k] ELSE IF k \in DOMAIN other_tbl THEN CityData_merge(prev[k], other_tbl[k]) ELSE prev[k])

\* C18 witness: a merge was made with a key only in other, a key in both maps
\* with a negative value on other's side, and a key only in self.
C18_Witness ==
    /\ last.tag = "Merge"
    /\ DOMAIN other_tbl \ DOMAIN prev # {}
    /\ DOMAIN prev \ DOMAIN other_tbl # {}
    /\ \E k \in DOMAIN prev \cap DOMAIN other_tbl : other_tbl[k].min < 0 /\ prev[k].count > 0

\* C11 (as claimed): CityData::merge is commutative and associative: merging b
\* into a ends as merging a into b does, and merging c into (a merged with b)
\* ends as merging (b merged with c) into a does.
C11_CommutativeAssociative == stage = "merged" => (ret.val.ab = ret.val.ba /\ ret.val.ab_c = ret.val.a_bc)
====
